---- MODULE Spec2Model ----
(***************************************************************************)
(* Model of the Ubuntu langpacks operator: the charm's event and action    *)
(* handlers (src/charm.py) over the Langpacks service (src/langpacks.py)   *)
(* and the Launchpad client (src/launchpad.py).                            *)
(*                                                                         *)
(* Every action is one dispatched event: the whole handler, with every     *)
(* Service call it makes.  The outcome of each external command, network   *)
(* call and filesystem call is an input of the action.                     *)
(***************************************************************************)
EXTENDS Naturals, Sequences, FiniteSets, TLC

VARIABLES
    status,     \* self.unit.status: [name, message]
    host,       \* the machine: packages, checkout, directories, crontab, keyring
    event,      \* the event dispatched last
    calls,      \* the Service calls and external steps of the last dispatch
    statusLog,  \* the statuses the last dispatch assigned, in order
    escaped,    \* the exception that left the last handler, or NoExc
    previous,   \* the kind of self.unit.status when the last dispatch began
    actionLog   \* the messages the last dispatch wrote with event.log

vars == <<status, host, event, calls, statusLog, escaped, previous, actionLog>>

----------------------------------------------------------------------------
(* Exceptions.  A class is named by a string; ExcBases gives its direct    *)
(* base classes.  IOError is an alias of OSError.                          *)

NoExc == "none"

IOError == "OSError"

ExcBases ==
    [ Exception               |-> {},
      SubprocessError         |-> {"Exception"},
      CalledProcessError      |-> {"SubprocessError"},
      AptError                |-> {"Exception"},
      PackageError            |-> {"AptError"},
      PackageNotFoundError    |-> {"AptError"},
      GitError                |-> {"Exception"},
      CommandError            |-> {"GitError"},
      GitCommandError         |-> {"CommandError"},
      NoSuchPathError         |-> {"GitError", "OSError"},
      OSError                 |-> {"Exception"},
      FileExistsError         |-> {"OSError"},
      FileNotFoundError       |-> {"OSError"},
      PermissionError         |-> {"OSError"},
      RequestException        |-> {"OSError"},
      HTTPError               |-> {"RequestException"},
      ConnectionError         |-> {"RequestException"},
      HttpLib2Error           |-> {"Exception"},
      ServerNotFoundError     |-> {"HttpLib2Error"},
      AttributeError          |-> {"Exception"},
      LookupError             |-> {"Exception"},
      KeyError                |-> {"LookupError"},
      ModelError              |-> {"Exception"},
      SecretNotFoundError     |-> {"ModelError"} ]

ExcClasses == DOMAIN ExcBases

RECURSIVE Ancestors(_)
Ancestors(c) == {c} \cup UNION { Ancestors(b) : b \in ExcBases[c] }

\* isinstance(e, classes): what an `except (classes)` clause catches
IsInstance(e, classes) == e # NoExc /\ (Ancestors(e) \cap classes) # {}

\* the exceptions that carry a `stdout` attribute
HasStdout(e) == IsInstance(e, {"CalledProcessError"})

----------------------------------------------------------------------------
(* Statuses *)

UnknownStatus          == [name |-> "unknown",     message |-> ""]
MaintenanceStatus(m)   == [name |-> "maintenance", message |-> m]
BlockedStatus(m)       == [name |-> "blocked",     message |-> m]
ActiveStatus(m)        == [name |-> "active",      message |-> m]

\* what a status tells the operator: that the unit is blocked, a message
\* on an active unit, or nothing in particular
Kind(st) ==
    IF st.name = "blocked" THEN "blocked"
    ELSE IF st.name = "active" /\ st.message # "" THEN "informed"
    ELSE "plain"

----------------------------------------------------------------------------
(* Constants of langpacks.py *)

PACKAGES ==
    << "build-essential", "libgettextpo-dev", "debhelper", "fakeroot",
       "python3-launchpadlib", "python3-apt", "dput", "git", "devscripts",
       "lintian" >>

\* a path is the sequence of its components
BUILDDIR      == <<"app", "build">>
LOGDIR        == <<"app", "log">>
REPO_LOCATION == <<"app", "langpack-o-matic">>
REPO_URL      == "https://git.launchpad.net/langpack-o-matic"

\* pathlib's `/`
Join(path, name) == Append(path, name)

----------------------------------------------------------------------------
(* The machine the Service acts on *)

\* a release directory: whether it exists, and its entries
NoDir      == [exists |-> FALSE, entries |-> {}]
Dir(es)    == [exists |-> TRUE, entries |-> es]
Entries == {"sources-base", "sources-update", "other"}
CacheEntries == {"sources-base", "sources-update"}

\* the series that are active at some time, and so may have a directory
Series == {"noble", "questing"}

\* lp.distributions["ubuntu"].series: every series with its `active` flag
SeriesListings ==
    { { [name |-> "warty",    active |-> FALSE],
        [name |-> "noble",    active |-> TRUE],
        [name |-> "questing", active |-> a] } : a \in BOOLEAN }

InitHost ==
    [ installed |-> {},                          \* packages apt has installed
      repo      |-> FALSE,                       \* REPO_LOCATION is a checkout
      builddir  |-> FALSE,                       \* BUILDDIR exists
      logdir    |-> FALSE,                       \* LOGDIR exists
      reldirs   |-> [s \in Series |-> NoDir],    \* BUILDDIR/<series>: its entries
      crontab   |-> FALSE,                       \* the user has a crontab
      keyring   |-> FALSE ]                      \* the keyring holds a secret key

\* a Service call or external step, as logged in `calls`: its return value,
\* the exception it raised, and (for the steps of a build) the release
\* directory as it was when the step began
Call(op, args) ==
    [op |-> op, args |-> args, ret |-> "None", exc |-> NoExc, dir |-> NoDir]
CallRet(op, args, ret) == [Call(op, args) EXCEPT !.ret = ret]

\* the result of running (part of) a Service operation: the host it leaves,
\* the exception it raises, and the calls made, the last of which raised it
Ran(h, e, cs) ==
    [host  |-> h,
     exc   |-> e,
     calls |-> IF cs = <<>> THEN cs ELSE [cs EXCEPT ![Len(cs)].exc = e]]

\* sequential composition: Step runs only if nothing was raised before it
Then(r, Step(_)) ==
    IF r.exc # NoExc THEN r
    ELSE LET s == Step(r.host)
         IN  [host |-> s.host, exc |-> s.exc, calls |-> r.calls \o s.calls]

NoFault == [step |-> "none", at |-> 0, exc |-> NoExc]
Fault(step, at, e) == [step |-> step, at |-> at, exc |-> e]

\* the exception an external step raises under fault f
Raised(f, step, at) == IF f.step = step /\ f.at = at THEN f.exc ELSE NoExc

----------------------------------------------------------------------------
(* Langpacks.setup_crontab / disable_crontab *)

CrontabFaults == {NoFault, Fault("crontab", 0, "CalledProcessError")}

setup_crontab(h, f) ==
    LET e == Raised(f, "crontab", 0)
    IN  Ran(IF e = NoExc THEN [h EXCEPT !.crontab = TRUE] ELSE h, e,
            <<Call("run", <<"crontab", "src/crontab">>)>>)

\* `crontab -r` exits non-zero when the user has no crontab
disable_crontab(h, f) ==
    LET e == IF ~h.crontab THEN "CalledProcessError" ELSE Raised(f, "crontab", 0)
    IN  Ran(IF e = NoExc THEN [h EXCEPT !.crontab = FALSE] ELSE h, e,
            <<Call("run", <<"crontab", "-r">>)>>)

----------------------------------------------------------------------------
(* Langpacks.install *)

InstallFaults ==
    {NoFault, Fault("update", 0, "CalledProcessError"),
     Fault("clone", 0, "GitCommandError")}
    \cup { Fault("add", i, e) : i \in 1..Len(PACKAGES),
                                e \in {"PackageNotFoundError", "PackageError"} }
    \cup { Fault("mkdir", i, "PermissionError") : i \in 1..2 }

apt_update(h, f) ==
    Ran(h, Raised(f, "update", 0), <<Call("apt.update", <<>>)>>)

\* apt_add_package removing what was installed when a package fails
apt_add_package_rollback(h, i, f) ==
    LET e == Raised(f, "add", i)
    IN  Ran(IF e = NoExc
            THEN [h EXCEPT !.installed = @ \cup {PACKAGES[i]}]
            ELSE [h EXCEPT !.installed = {}],
            e, <<Call("apt.add_package", <<PACKAGES[i]>>)>>)

apt_add_package(h, i, f) ==
    LET e == Raised(f, "add", i)
    IN  Ran(IF e = NoExc
            THEN [h EXCEPT !.installed = @ \cup {PACKAGES[i]}] ELSE h,
            e, <<Call("apt.add_package", <<PACKAGES[i]>>)>>)

\* git refuses to clone into an existing, non-empty directory
_checkout_git(h, f) ==
    LET e == IF h.repo THEN "GitCommandError" ELSE Raised(f, "clone", 0)
    IN  Ran(IF e = NoExc THEN [h EXCEPT !.repo = TRUE] ELSE h, e,
            <<Call("Repo.clone_from", <<REPO_URL>>)>>)

\* os.mkdir(dname) for the i-th of (BUILDDIR, LOGDIR)
os_mkdir(h, i, f) ==
    LET exists == IF i = 1 THEN h.builddir ELSE h.logdir
        e == IF exists THEN "FileExistsError" ELSE Raised(f, "mkdir", i)
    IN  Ran(IF e # NoExc THEN h
            ELSE IF i = 1 THEN [h EXCEPT !.builddir = TRUE]
            ELSE [h EXCEPT !.logdir = TRUE],
            e, <<Call("os.mkdir", IF i = 1 THEN BUILDDIR ELSE LOGDIR)>>)

RECURSIVE AddPackages(_, _, _)
AddPackages(r, i, f) ==
    IF i > Len(PACKAGES) THEN r
    ELSE AddPackages(Then(r, LAMBDA h : apt_add_package(h, i, f)), i + 1, f)

install(h0, f) ==
    LET r1 == apt_update(h0, f)
        r2 == AddPackages(r1, 1, f)
        r3 == Then(r2, LAMBDA h : _checkout_git(h, f))
        r4 == Then(r3, LAMBDA h : os_mkdir(h, 1, f))
    IN  Then(r4, LAMBDA h : os_mkdir(h, 2, f))

----------------------------------------------------------------------------
(* Langpacks.update_checkout *)

UpdateFaults ==
    {NoFault, Fault("pull", 0, "GitCommandError"),
     Fault("make", 0, "CalledProcessError")}

\* Repo(clone_path) raises NoSuchPathError when there is no checkout
_update_git(h, f) ==
    Ran(h, IF ~h.repo THEN "NoSuchPathError" ELSE Raised(f, "pull", 0),
        <<Call("origin.pull", <<REPO_URL>>)>>)

make(h, f) ==
    Ran(h, Raised(f, "make", 0), <<Call("run", <<"make", "-C", "bin">>)>>)

update_checkout(h0, f) ==
    Then(_update_git(h0, f), LAMBDA h : make(h, f))

----------------------------------------------------------------------------
(* Langpacks.build_langpacks *)

\* the `release` and `base` parameters the build action is tried with
BuildParams ==
    { [release |-> "Questing", base |-> TRUE],
      [release |-> "Questing", base |-> FALSE],
      [release |-> "noble",    base |-> FALSE],
      [release |-> "devel",    base |-> TRUE],
      [release |-> "devel",    base |-> FALSE] }

\* str.lower() on the release names above
Lower(s) == CASE s = "Questing" -> "questing" [] OTHER -> s

Threshold == 10

ThresholdOption ==
    CASE Threshold = 10 -> "--treshold=10" [] OTHER -> "--treshold=?"

\* BuildPlan with the delta tarball written to the name of the full one
BuildPlan_same_filename(release, base) ==
    [ url     |-> "https://translations.launchpad.net/ubuntu/" \o release
                      \o (IF base THEN "/+latest-full-language-pack"
                                  ELSE "/+latest-delta-language-pack"),
      tarball |-> Join(REPO_LOCATION,
                       "ubuntu-" \o release \o "-translations.tar.gz"),
      options |-> IF base THEN <<"-v", ThresholdOption>>
                  ELSE <<"-v", "--update", ThresholdOption>> ]

\* download URL, tarball path and import options for (release, base)
BuildPlan(release, base) ==
    IF base
    THEN [ url     |-> "https://translations.launchpad.net/ubuntu/" \o release
                           \o "/+latest-full-language-pack",
           tarball |-> Join(REPO_LOCATION,
                            "ubuntu-" \o release \o "-translations.tar.gz"),
           options |-> <<"-v", ThresholdOption>> ]
    ELSE [ url     |-> "https://translations.launchpad.net/ubuntu/" \o release
                           \o "/+latest-delta-language-pack",
           tarball |-> Join(REPO_LOCATION,
                            "ubuntu-" \o release \o "-translations-update.tar.gz"),
           options |-> <<"-v", "--update", ThresholdOption>> ]

\* what Launchpad answers: the series of ubuntu, or a network error
LaunchpadReplies ==
    { [exc |-> NoExc, series |-> l] : l \in SeriesListings }
    \cup { [exc |-> "ServerNotFoundError", series |-> {}] }

\* LaunchpadClient.active_series(): the names of the series with s.active
ActiveNames(series) == { s.name : s \in { x \in series : x.active } }

active_series(h, lp) ==
    Ran(h, lp.exc, <<CallRet("active_series", <<>>, ActiveNames(lp.series))>>)

\* outcomes of shutil.rmtree: it removes everything, or fails part-way and
\* leaves some of the entries behind
RmDone == [fails |-> FALSE, left |-> {}]

RmOutcomes(h, release, base, lp) ==
    {RmDone}
    \cup (IF base /\ release \in ActiveNames(lp.series) /\ h.reldirs[release].exists
          THEN { [fails |-> TRUE, left |-> l] :
                    l \in SUBSET h.reldirs[release].entries }
          ELSE {})

\* _clean_builddir logs an OSError of rmtree and returns normally
_clean_builddir(h, release, rm) ==
    IF ~h.reldirs[release].exists
    THEN Ran(h, NoExc, <<>>)
    ELSE [ host  |-> [h EXCEPT !.reldirs[release] =
                                  IF rm.fails THEN Dir(rm.left) ELSE NoDir],
           exc   |-> NoExc,
           calls |-> <<[Call("shutil.rmtree", Join(BUILDDIR, release))
                           EXCEPT !.exc = IF rm.fails THEN "OSError" ELSE NoExc]>> ]

BuildFaults ==
    {NoFault, Fault("makedirs", 0, "PermissionError"),
     Fault("get", 0, "ConnectionError"), Fault("status", 0, "HTTPError"),
     Fault("open", 0, "PermissionError"), Fault("logopen", 0, "PermissionError"),
     Fault("import", 0, "CalledProcessError")}

\* os.makedirs(releasedir, exist_ok=True): creates BUILDDIR too
os_makedirs(h, release, f) ==
    LET e == Raised(f, "makedirs", 0)
    IN  Ran(IF e # NoExc THEN h
            ELSE [h EXCEPT !.builddir = TRUE,
                           !.reldirs[release] = Dir(@.entries)],
            e, <<Call("os.makedirs", Join(BUILDDIR, release))>>)

\* requests.get, raise_for_status, then the tarball is opened and written
\* (the file is overwritten by every download and read by no step of the
\* program: its path is what `calls` keeps)
_download_tarball(h, url, filename, f) ==
    LET get    == Ran(h, Raised(f, "get", 0), <<Call("requests.get", <<url>>)>>)
        checked == Then(get, LAMBDA g :
                       Ran(g, Raised(f, "status", 0), <<Call("raise_for_status", <<>>)>>))
    IN  Then(checked, LAMBDA g :
            LET e == IF ~g.repo THEN "FileNotFoundError" ELSE Raised(f, "open", 0)
            IN  Ran(g, e, <<Call("open(wb)", filename)>>))

\* what the import script leaves in the release directory
ImportOutputs(base) ==
    IF base THEN {"sources-base", "other"} ELSE {"sources-update", "other"}

\* the `except Exception as e` around the import step reads e.stdout
\* before re-raising
ImportExcept(e) ==
    IF e = NoExc \/ HasStdout(e) THEN e ELSE "AttributeError"

\* open(LOGDIR / release, "a"), then the import script
import_step(h, base, release, plan, f) ==
    LET logopen == Ran(h, IF ~h.logdir THEN "FileNotFoundError"
                          ELSE Raised(f, "logopen", 0),
                       <<Call("open(a)", Join(LOGDIR, release))>>)
        ran == Then(logopen, LAMBDA g :
                 LET e == Raised(f, "import", 0)
                 IN  Ran(IF e = NoExc
                         THEN [g EXCEPT !.reldirs[release] =
                                            Dir(@.entries \cup ImportOutputs(base))]
                         ELSE g,
                         e, <<Call("import",
                                   [options |-> plan.options,
                                    tarball |-> plan.tarball,
                                    release |-> release,
                                    outdir  |-> Join(BUILDDIR, release)])>>))
    IN  [ran EXCEPT !.exc = ImportExcept(@)]

\* the calls of a step, each with the release directory the step began with
Snap(h, release, r) ==
    [r EXCEPT !.calls = [i \in DOMAIN @ |-> [@[i] EXCEPT !.dir = h.reldirs[release]]]]

\* build_release downloading before it creates the release directory
build_release_download_first(looked, base, release, rm, f) ==
    LET plan    == BuildPlan(release, base)
        cleaned == IF base
                   THEN Then(looked, LAMBDA h :
                           Snap(h, release, _clean_builddir(h, release, rm)))
                   ELSE looked
        fetched == Then(cleaned, LAMBDA h :
                      Snap(h, release,
                           _download_tarball(h, plan.url, plan.tarball, f)))
        made    == Then(fetched, LAMBDA h :
                      Snap(h, release, os_makedirs(h, release, f)))
    IN  Then(made, LAMBDA h :
            Snap(h, release, import_step(h, base, release, plan, f)))

\* build_langpacks from `releasedir = BUILDDIR / release` on
build_release(looked, base, release, rm, f) ==
    LET plan    == BuildPlan(release, base)
        cleaned == IF base
                   THEN Then(looked, LAMBDA h :
                           Snap(h, release, _clean_builddir(h, release, rm)))
                   ELSE looked
        made    == Then(cleaned, LAMBDA h :
                      Snap(h, release, os_makedirs(h, release, f)))
        fetched == Then(made, LAMBDA h :
                      Snap(h, release,
                           _download_tarball(h, plan.url, plan.tarball, f)))
    IN  Then(fetched, LAMBDA h :
            Snap(h, release, import_step(h, base, release, plan, f)))

\* build_langpacks testing the release against every known series instead
\* of the active ones
build_langpacks_any_series(h0, base, release_in, lp, rm, f) ==
    LET release == Lower(release_in)
        looked  == active_series(h0, lp)
    IN  IF looked.exc # NoExc \/ release \notin Series
        THEN looked
        ELSE build_release(looked, base, release, rm, f)

build_langpacks(h0, base, release_in, lp, rm, f) ==
    LET release == Lower(release_in)
        looked  == active_series(h0, lp)
        active == ActiveNames(lp.series)
    IN  IF looked.exc # NoExc \/ release \notin active
        THEN looked
        ELSE build_release(looked, base, release, rm, f)

----------------------------------------------------------------------------
(* Langpacks.upload_langpacks *)

UploadFaults ==
    {NoFault, Fault("logopen", 0, "PermissionError"),
     Fault("upload", 0, "CalledProcessError")}

upload_langpacks(h0, f) ==
    LET logopen == Ran(h0, IF ~h0.logdir THEN "FileNotFoundError"
                           ELSE Raised(f, "logopen", 0),
                       <<Call("open(a)", Join(LOGDIR, "upload.log"))>>)
    IN  Then(logopen, LAMBDA h :
            Ran(h, IF ~h.builddir \/ ~h.repo THEN "FileNotFoundError"
                   ELSE Raised(f, "upload", 0),
                <<Call("run", <<"packages", "upload">>)>>))

----------------------------------------------------------------------------
(* Langpacks.import_gpg_key / check_gpg_key *)

None == "None"
KeyMaterial == {"GPG_PRIVATE_KEY"}

GpgFaults == {NoFault, Fault("gpg", 0, "CalledProcessError")}

import_gpg_key(h, key, f) ==
    LET e == Raised(f, "gpg", 0)
    IN  Ran(IF e = NoExc /\ key \in KeyMaterial
            THEN [h EXCEPT !.keyring = TRUE] ELSE h,
            e, <<Call("run", <<"gpg", "--import", key>>)>>)

\* a line of output is the sequence of its characters
StartsWith(line, prefix) ==
    Len(line) >= Len(prefix) /\ SubSeq(line, 1, Len(prefix)) = prefix

SecMarker == <<"s", "e", "c", ":">>

GpgLines ==
    { <<"s", "e", "c", ":", "u">>, <<"s", "s", "b", ":">>,
      <<" ", "s", "e", "c", ":">> }

MaxLines == 2

RECURSIVE LinesUpTo(_)
LinesUpTo(n) ==
    IF n = 0 THEN {<<>>}
    ELSE LET shorter == LinesUpTo(n - 1)
         IN  shorter \cup { Append(ls, l) : ls \in shorter, l \in GpgLines }

ListsSecretKey(stdout) ==
    \E i \in 1..Len(stdout) : StartsWith(stdout[i], SecMarker)

\* `gpg --list-secret-keys --with-colons`: it fails, or it prints a `sec:`
\* record exactly when the keyring holds a secret key
GpgListings(h) ==
    { [exc |-> e, stdout |-> <<>>] : e \in {"CalledProcessError", "FileNotFoundError"} }
    \cup { [exc |-> NoExc, stdout |-> ls] :
              ls \in { l \in LinesUpTo(MaxLines) : ListsSecretKey(l) = h.keyring } }

\* the loop over response.stdout.splitlines(), from line i on
RECURSIVE ScanLines(_, _)
ScanLines(lines, i) ==
    IF i > Len(lines) THEN FALSE
    ELSE IF StartsWith(lines[i], SecMarker) THEN TRUE
    ELSE ScanLines(lines, i + 1)

\* check_gpg_key looking at the first line of the output only
check_gpg_key_first_line_only(listing) ==
    /\ listing.exc = NoExc
    /\ Len(listing.stdout) > 0
    /\ StartsWith(listing.stdout[1], SecMarker)
check_gpg_key(listing) ==
    IF listing.exc # NoExc THEN FALSE ELSE ScanLines(listing.stdout, 1)

\* the listing command as check_gpg_key ran it: its output, or its error
ListingCommand == <<"gpg", "--list-secret-keys", "--with-colons">>
ListingCall(listing) ==
    [Call("run", ListingCommand)
        EXCEPT !.ret = IF listing.exc = NoExc THEN listing.stdout ELSE None,
               !.exc = listing.exc]

----------------------------------------------------------------------------
(* UbuntuLangpacksCharm: the handlers *)

\* the events the framework may dispatch to the charm
Events ==
    {"install", "upgrade_charm", "start", "config_changed",
     "build_langpacks_action", "upload_langpacks_action", "stop"}

NoEvent == "none"

\* the events __init__ registers a handler for
Observed ==
    {"start", "install", "config_changed", "build_langpacks_action",
     "upload_langpacks_action", "stop"}

\* the `except` clauses of the handlers
StartCatches     == {"CalledProcessError"}
ConfigCatches    == {"KeyError"}
InstallCatches   == {"CalledProcessError", "PackageError", "PackageNotFoundError"}
\* SecretCatches without the error of a secret that was not granted
SecretCatches_not_found_only == {"SecretNotFoundError"}
SecretCatches    == {"SecretNotFoundError", "ModelError"}
ImportKeyCatches == {"CalledProcessError"}
BuildCatches     == {"CalledProcessError", IOError, "RequestException"}
UploadCatches    == {"CalledProcessError"}
\* StopCatches naming the wrong error class
StopCatches_package_error == {"PackageError"}
StopCatches      == {"CalledProcessError"}

\* the status messages of the handlers (the source's backquotes are written as quotes)
StartFailed ==
    "Failed to start services. Check 'juju debug-log' for details."
InstallFailed ==
    "Failed to install packages. Check 'juju debug-log' for details."
ImportKeyFailed ==
    "Failed to import the signing key. Check 'juju debug-log' for details."
BuildFailed ==
    "Failed to build langpacks. Check 'juju debug-log' for details."
UploadFailed ==
    "Failed to upload langpacks. Check 'juju debug-log' for details."
SigningDisabled ==
    "Signing disabled. Set the 'gpg-secret-id' to enable."
SecretNotAvailable ==
    "Secret not available. Check that access was granted."
UploadDisabled ==
    "Upload disabled. Set and grant 'gpg-secret-id' to enable."

\* a Service method called by a handler: the call is logged before its steps
Invoke(name, args, r) ==
    [r EXCEPT !.calls = <<[Call(name, args) EXCEPT !.exc = r.exc]>> \o @]

\* what one dispatch leaves behind; no handler calls event.log
Handled(log, r, esc) ==
    [statusLog |-> log, host |-> r.host, calls |-> r.calls, escaped |-> esc,
     actionLog |-> <<>>]

\* the body of a `try: <call> except <catches>: status = onFail; return`
\* followed by `status = onOk`
Guarded(log, r, catches, onFail, onOk) ==
    IF r.exc = NoExc THEN Handled(log \o onOk, r, NoExc)
    ELSE IF IsInstance(r.exc, catches) THEN Handled(Append(log, onFail), r, NoExc)
    ELSE Handled(log, r, r.exc)

_on_start(h, f) ==
    Guarded(<<MaintenanceStatus("Updating langpack-o-matic checkout")>>,
            Invoke("update_checkout", <<>>, update_checkout(h, f)),
            StartCatches,
            BlockedStatus(StartFailed),
            <<ActiveStatus("")>>)

\* _on_install going on to active status whatever setup_crontab did
_on_install_ignoring_crontab(h0, f, cf) ==
    LET m1 == MaintenanceStatus("Installing langpack dependencies")
        m2 == MaintenanceStatus("Setting up crontab")
        r  == Invoke("install", <<>>, install(h0, f))
    IN  IF r.exc # NoExc
        THEN Guarded(<<m1>>, r, InstallCatches, BlockedStatus(InstallFailed), <<>>)
        ELSE LET c == Then(r, LAMBDA h :
                         Invoke("setup_crontab", <<>>, setup_crontab(h, cf)))
             IN  Handled(<<m1, m2, ActiveStatus("")>>, c, NoExc)

_on_install(h0, f, cf) ==
    LET m1 == MaintenanceStatus("Installing langpack dependencies")
        m2 == MaintenanceStatus("Setting up crontab")
        r  == Invoke("install", <<>>, install(h0, f))
    IN  IF r.exc # NoExc
        THEN Guarded(<<m1>>, r, InstallCatches, BlockedStatus(InstallFailed), <<>>)
        ELSE LET c == Then(r, LAMBDA h :
                         Invoke("setup_crontab", <<>>, setup_crontab(h, cf)))
             IN  Handled(IF c.exc = NoExc THEN <<m1, m2, ActiveStatus("")>>
                         ELSE <<m1, m2>>,
                         c, c.exc)

\* self.config: the option is set to a secret id, or is not set
ConfigValues == {None, "secret:gpg"}

\* model.get_secret(id=...).get_content()
SecretReplies ==
    { [exc |-> e, content |-> <<>>] : e \in {"SecretNotFoundError", "ModelError"} }
    \cup { [exc |-> NoExc, content |-> c] :
              c \in { [key |-> "GPG_PRIVATE_KEY"], [passphrase |-> "x"] } }

\* dict.get(name)
DictGet(d, name) == IF name \in DOMAIN d THEN d[name] ELSE None

_on_config_changed(h, secret_id, sec, f) ==
    LET m == MaintenanceStatus("Importing signing key")
        lookup == Ran(h, IF secret_id = None THEN "KeyError" ELSE NoExc,
                      <<CallRet("config", <<"gpg-secret-id">>, secret_id)>>)
    IN  IF lookup.exc # NoExc
        THEN Guarded(<<m>>, lookup, ConfigCatches, ActiveStatus(SigningDisabled), <<>>)
        ELSE LET got == Then(lookup, LAMBDA g :
                           Ran(g, sec.exc, <<Call("get_secret", <<secret_id>>)>>))
             IN  IF got.exc # NoExc
                 THEN Guarded(<<m>>, got, SecretCatches,
                              ActiveStatus(SecretNotAvailable),
                              <<>>)
                 ELSE LET keycontent == DictGet(sec.content, "key")
                          r == Invoke("import_gpg_key", <<keycontent>>,
                                      import_gpg_key(h, keycontent, f))
                      IN  Guarded(<<m>>, [r EXCEPT !.calls = got.calls \o @],
                                  ImportKeyCatches,
                                  ActiveStatus(ImportKeyFailed),
                                  <<ActiveStatus("")>>)

\* _on_build_langpacks reporting a failed build as blocked
_on_build_langpacks_blocking(h, release, base, lp, rm, f) ==
    Guarded(<<MaintenanceStatus("Building langpacks")>>,
            Invoke("build_langpacks", [base |-> base, release |-> release],
                   build_langpacks(h, base, release, lp, rm, f)),
            BuildCatches,
            BlockedStatus(BuildFailed),
            <<ActiveStatus("")>>)

_on_build_langpacks(h, release, base, lp, rm, f) ==
    Guarded(<<MaintenanceStatus("Building langpacks")>>,
            Invoke("build_langpacks", [base |-> base, release |-> release],
                   build_langpacks(h, base, release, lp, rm, f)),
            BuildCatches,
            ActiveStatus(BuildFailed),
            <<ActiveStatus("")>>)

\* _on_upload_langpacks without the `if not check_gpg_key()` return
_on_upload_langpacks_unguarded(h, listing, f) ==
    LET m == MaintenanceStatus("Uploading langpacks")
        key == check_gpg_key(listing)
        checked == <<CallRet("check_gpg_key", <<>>, IF key THEN "True" ELSE "False"),
                     ListingCall(listing)>>
        r == Invoke("upload_langpacks", <<>>, upload_langpacks(h, f))
    IN  Guarded(<<m>>, [r EXCEPT !.calls = checked \o @],
                UploadCatches,
                ActiveStatus(UploadFailed),
                <<ActiveStatus("")>>)

_on_upload_langpacks(h, listing, f) ==
    LET m == MaintenanceStatus("Uploading langpacks")
        key == check_gpg_key(listing)
        checked == [ host  |-> h,
                     exc   |-> NoExc,
                     calls |-> <<CallRet("check_gpg_key", <<>>,
                                         IF key THEN "True" ELSE "False"),
                                 ListingCall(listing)>> ]
    IN  IF ~key
        THEN Handled(<<m, ActiveStatus(UploadDisabled)>>,
                     checked, NoExc)
        ELSE LET r == Invoke("upload_langpacks", <<>>, upload_langpacks(h, f))
             IN  Guarded(<<m>>, [r EXCEPT !.calls = checked.calls \o @],
                         UploadCatches,
                         ActiveStatus(UploadFailed),
                         <<ActiveStatus("")>>)

_on_stop(h, f) ==
    LET m == MaintenanceStatus("Removing crontab")
        r == Invoke("disable_crontab", <<>>, disable_crontab(h, f))
    IN  IF IsInstance(r.exc, StopCatches) THEN Handled(<<m>>, r, NoExc)
        ELSE Handled(<<m>>, r, r.exc)

----------------------------------------------------------------------------
(* The framework dispatching events *)

Init ==
    /\ status = UnknownStatus
    /\ host = InitHost
    /\ event = NoEvent
    /\ calls = <<>>
    /\ statusLog = <<>>
    /\ escaped = NoExc
    /\ previous = Kind(UnknownStatus)
    /\ actionLog = <<>>

\* a dispatch that leaves a blocked unit blocked whatever the handler does
Emit_blocked_sticks(ev, handled) ==
    /\ event' = ev
    /\ previous' = Kind(status)
    /\ IF ev \in Observed
       THEN LET res == handled
            IN  /\ host' = res.host
                /\ calls' = res.calls
                /\ statusLog' = res.statusLog
                /\ escaped' = res.escaped
                /\ actionLog' = res.actionLog
                /\ status' = IF res.statusLog = <<>> \/ status.name = "blocked"
                             THEN status
                             ELSE res.statusLog[Len(res.statusLog)]
       ELSE /\ calls' = <<>>
            /\ statusLog' = <<>>
            /\ escaped' = NoExc
            /\ actionLog' = <<>>
            /\ UNCHANGED <<host, status>>

\* the state after the handler of event ev, if any, has run
Emit(ev, handled) ==
    /\ event' = ev
    /\ previous' = Kind(status)
    /\ IF ev \in Observed
       THEN LET res == handled
            IN  /\ host' = res.host
                /\ calls' = res.calls
                /\ statusLog' = res.statusLog
                /\ escaped' = res.escaped
                /\ actionLog' = res.actionLog
                /\ status' = IF res.statusLog = <<>> THEN status
                             ELSE res.statusLog[Len(res.statusLog)]
       ELSE /\ calls' = <<>>
            /\ statusLog' = <<>>
            /\ escaped' = NoExc
            /\ actionLog' = <<>>
            /\ UNCHANGED <<host, status>>

\* install is the first event of a unit's life
Deployed == event # NoEvent

\* the faults that can show in a step run after `r` returned
After(r, faults) == IF r.exc = NoExc THEN faults ELSE {NoFault}

Install ==
    \E f \in InstallFaults :
        \E cf \in After(install(host, f), CrontabFaults) :
            Emit("install", _on_install(host, f, cf))

\* upgrade_charm has no observer: the framework runs no handler
UpgradeCharm ==
    /\ Deployed
    /\ Emit("upgrade_charm", Handled(<<>>, Ran(host, NoExc, <<>>), NoExc))

Start ==
    /\ Deployed
    /\ \E f \in UpdateFaults : Emit("start", _on_start(host, f))

ConfigChanged ==
    /\ Deployed
    /\ \/ Emit("config_changed",
                _on_config_changed(host, None, CHOOSE sec \in SecretReplies : TRUE, NoFault))
       \/ \E secret_id \in ConfigValues \ {None}, sec \in SecretReplies :
             \E f \in After(sec, GpgFaults) :
                Emit("config_changed", _on_config_changed(host, secret_id, sec, f))

\* at most one external step is made to fail in a dispatch
BuildLangpacksAction ==
    /\ Deployed
    /\ \E p \in BuildParams, lp \in LaunchpadReplies :
          \E f \in (IF Lower(p.release) \in ActiveNames(lp.series)
                    THEN BuildFaults ELSE {NoFault}) :
             \E rm \in (IF f = NoFault
                        THEN RmOutcomes(host, Lower(p.release), p.base, lp)
                        ELSE {RmDone}) :
                Emit("build_langpacks_action",
                     _on_build_langpacks(host, p.release, p.base, lp, rm, f))

UploadLangpacksAction ==
    /\ Deployed
    /\ \E listing \in GpgListings(host) :
          \E f \in (IF check_gpg_key(listing) THEN UploadFaults ELSE {NoFault}) :
             Emit("upload_langpacks_action", _on_upload_langpacks(host, listing, f))

Stop ==
    /\ Deployed
    /\ \E f \in CrontabFaults : Emit("stop", _on_stop(host, f))

Next ==
    \/ Install
    \/ UpgradeCharm
    \/ Start
    \/ ConfigChanged
    \/ BuildLangpacksAction
    \/ UploadLangpacksAction
    \/ Stop

Spec == Init /\ [][Next]_vars

TypeOK ==
    /\ status.name \in {"unknown", "maintenance", "blocked", "active"}
    /\ event \in Events \cup {NoEvent}
    /\ escaped \in ExcClasses \cup {NoExc}
    /\ host.installed \subseteq { PACKAGES[i] : i \in 1..Len(PACKAGES) }
    /\ \A s \in Series : /\ host.reldirs[s].entries \subseteq Entries
                         /\ host.reldirs[s].exists \/ host.reldirs[s].entries = {}
    /\ (\E s \in Series : host.reldirs[s].exists) => host.builddir
    /\ previous \in {"plain", "informed", "blocked"}
    /\ actionLog \in Seq(STRING)

----------------------------------------------------------------------------
(* Reading the log of the last dispatch *)

Called(op) == \E i \in DOMAIN calls : calls[i].op = op

\* the logged call of Service method `op` (a handler calls it at most once)
TheCall(op) == calls[CHOOSE i \in DOMAIN calls : calls[i].op = op]

\* the handler ended by returning, with the unit in status st
EndedIn(st) == escaped = NoExc /\ status = st

\* some status assigned by the last dispatch is a blocked status
SetBlocked == \E i \in DOMAIN statusLog : statusLog[i].name = "blocked"

----------------------------------------------------------------------------
(* C1: an install event whose Langpacks.install fails with a package       *)
(* error, a package-not-found error, a git clone error or a command error  *)
(* ends in blocked status, and setup_crontab is not called.                *)

InstallErrors ==
    {"PackageError", "PackageNotFoundError", "GitCommandError", "CalledProcessError"}

C1_InstallFailureBlocks ==
    (event = "install" /\ Called("install") /\ TheCall("install").exc \in InstallErrors)
        => (status.name = "blocked" /\ ~Called("setup_crontab"))

(* C2: an upgrade event is handled like an install event: install is       *)
(* called, then setup_crontab if install succeeded; active with an empty   *)
(* message on success, blocked if install fails.                           *)

C2_UpgradeLikeInstall ==
    event = "upgrade_charm" =>
        /\ Called("install")
        /\ IF TheCall("install").exc = NoExc
           THEN /\ Called("setup_crontab")
                /\ TheCall("setup_crontab").exc = NoExc => EndedIn(ActiveStatus(""))
           ELSE status.name = "blocked" /\ ~Called("setup_crontab")

(* C3: a start event calls update_checkout; the unit ends active if it     *)
(* returns, and blocked with the 'Failed to start services' message if it  *)
(* fails with a command error or a version-control error.                  *)

C3_StartOutcome ==
    event = "start" =>
        /\ Called("update_checkout")
        /\ TheCall("update_checkout").exc = NoExc => EndedIn(ActiveStatus(""))
        /\ TheCall("update_checkout").exc \in {"CalledProcessError", "GitCommandError"}
              => EndedIn(BlockedStatus(StartFailed))

(* C4: a build action in which a step of build_langpacks fails (creating   *)
(* the release directory, the download or its HTTP status, opening the     *)
(* tarball or the per-release log, the import script) ends in active       *)
(* status with the 'Failed to build langpacks' message: the unit is not    *)
(* blocked and no error leaves the handler.                                *)

BuildSteps ==
    {"os.makedirs", "requests.get", "raise_for_status", "open(wb)", "open(a)", "import"}

BuildStepFailed ==
    \E i \in DOMAIN calls : calls[i].op \in BuildSteps /\ calls[i].exc # NoExc

C4_BuildFailureInforms ==
    (event = "build_langpacks_action" /\ BuildStepFailed)
        => EndedIn(ActiveStatus(BuildFailed))

(* C5: upload_langpacks is invoked only inside an upload action in which  *)
(* check_gpg_key returned true; when it returns false the handler ends in  *)
(* active status with the 'Upload disabled' message and upload_langpacks   *)
(* is not invoked.                                                         *)

KeyCheck == TheCall("check_gpg_key").ret

C5_UploadOnlyWithKey ==
    /\ Called("upload_langpacks") =>
          /\ event = "upload_langpacks_action"
          /\ \E i, j \in DOMAIN calls :
                /\ i < j
                /\ calls[i].op = "check_gpg_key" /\ calls[i].ret = "True"
                /\ calls[j].op = "upload_langpacks"
    /\ (event = "upload_langpacks_action" /\ KeyCheck = "False") =>
          (EndedIn(ActiveStatus(UploadDisabled)) /\ ~Called("upload_langpacks"))

C5_Witness ==
    /\ event = "upload_langpacks_action"
    /\ KeyCheck = "True"
    /\ Called("upload_langpacks")

(* C6: for a release name whose lowercase form is not in the active-series *)
(* set the launchpad client returned, build_langpacks (base or not)        *)
(* removes no cache, creates no directory, downloads nothing, does not run *)
(* the import script, and returns without error.                           *)

\* the lowercase form of the release names the action is tried with
Lowercase == [Questing |-> "questing", noble |-> "noble", devel |-> "devel"]

ReleaseBuilt == Lowercase[TheCall("build_langpacks").args.release]

InactiveBuild ==
    /\ event = "build_langpacks_action"
    /\ TheCall("active_series").exc = NoExc
    /\ ReleaseBuilt \notin TheCall("active_series").ret

NoBuildStep ==
    \A i \in DOMAIN calls : calls[i].op \notin BuildSteps \cup {"shutil.rmtree"}

C6_InactiveReleaseNoOp ==
    [][InactiveBuild' =>
          /\ host' = host
          /\ NoBuildStep'
          /\ TheCall("build_langpacks")'.exc = NoExc]_vars

C6_Witness ==
    /\ InactiveBuild
    /\ TheCall("build_langpacks").args = [base |-> TRUE, release |-> "Questing"]
    /\ host.reldirs["questing"].entries = Entries

(* C7: in a build of an active release with base=true, when the download   *)
(* begins the cache subdirectories the release had before the build no     *)
(* longer exist; with base=false they are untouched by every step up to    *)
(* the start of the import script.                                         *)

CacheOf(d) == d.entries \cap CacheEntries

C7_CacheClearedBeforeDownload ==
    [][(event' = "build_langpacks_action" /\ Called("requests.get")') =>
          IF TheCall("build_langpacks")'.args.base
          THEN CacheOf(host.reldirs[ReleaseBuilt']) \cap
                   CacheOf(TheCall("requests.get")'.dir) = {}
          ELSE \A i \in DOMAIN calls' :
                  calls'[i].op \in BuildSteps =>
                     CacheOf(calls'[i].dir) = CacheOf(host.reldirs[ReleaseBuilt'])]_vars

(* C8: for an active release r the download URL, the tarball filename and  *)
(* the import options depend on (r, base) only: the full-language-pack     *)
(* URL, 'ubuntu-r-translations.tar.gz' and [-v, --treshold=10] for a base  *)
(* build; the delta-language-pack URL, the '-update' filename and          *)
(* [-v, --update, --treshold=10] otherwise.                                *)

ExpectedUrl ==
    [ questing |->
        [ full  |-> "https://translations.launchpad.net/ubuntu/questing/+latest-full-language-pack",
          delta |-> "https://translations.launchpad.net/ubuntu/questing/+latest-delta-language-pack" ],
      noble |->
        [ full  |-> "https://translations.launchpad.net/ubuntu/noble/+latest-full-language-pack",
          delta |-> "https://translations.launchpad.net/ubuntu/noble/+latest-delta-language-pack" ] ]

ExpectedFilename ==
    [ questing |-> [ full  |-> "ubuntu-questing-translations.tar.gz",
                     delta |-> "ubuntu-questing-translations-update.tar.gz" ],
      noble    |-> [ full  |-> "ubuntu-noble-translations.tar.gz",
                     delta |-> "ubuntu-noble-translations-update.tar.gz" ] ]

ExpectedOptions ==
    [ full  |-> <<"-v", "--treshold=10">>,
      delta |-> <<"-v", "--update", "--treshold=10">> ]

ModeBuilt == IF TheCall("build_langpacks").args.base THEN "full" ELSE "delta"

Basename(path) == path[Len(path)]

C8_PlanByMode ==
    event = "build_langpacks_action" =>
        /\ Called("requests.get") =>
              TheCall("requests.get").args = <<ExpectedUrl[ReleaseBuilt][ModeBuilt]>>
        /\ Called("open(wb)") =>
              Basename(TheCall("open(wb)").args) = ExpectedFilename[ReleaseBuilt][ModeBuilt]
        /\ Called("import") =>
              /\ TheCall("import").args.options = ExpectedOptions[ModeBuilt]
              /\ Basename(TheCall("import").args.tarball)
                    = ExpectedFilename[ReleaseBuilt][ModeBuilt]

C8_Witness ==
    /\ event = "build_langpacks_action"
    /\ TheCall("build_langpacks").args = [base |-> FALSE, release |-> "Questing"]
    /\ Called("import")
    /\ TheCall("import").exc = NoExc

(* C9: on configuration-changed import_gpg_key is called only when the     *)
(* 'gpg-secret-id' option is set and its secret was resolved; with the     *)
(* option missing the handler ends active with 'Signing disabled', with    *)
(* the secret not found or not granted it ends active with 'Secret not     *)
(* available', and in neither case is import_gpg_key called.               *)

C9_ImportOnlyWithSecret ==
    /\ Called("import_gpg_key") =>
          /\ event = "config_changed"
          /\ TheCall("config").exc = NoExc
          /\ Called("get_secret") /\ TheCall("get_secret").exc = NoExc
    /\ (event = "config_changed" /\ TheCall("config").exc = "KeyError") =>
          (EndedIn(ActiveStatus(SigningDisabled)) /\ ~Called("import_gpg_key"))
    /\ (event = "config_changed" /\ Called("get_secret")
           /\ TheCall("get_secret").exc \in {"SecretNotFoundError", "ModelError"}) =>
          (EndedIn(ActiveStatus(SecretNotAvailable)) /\ ~Called("import_gpg_key"))

C9_Witness ==
    /\ event = "config_changed"
    /\ Called("get_secret") /\ TheCall("get_secret").exc = "ModelError"
    /\ status = ActiveStatus(SecretNotAvailable)

(* C10: the unit status is blocked only as the outcome of a failed         *)
(* install/upgrade handling: no handling of start, configuration-changed,  *)
(* build action, upload action or stop sets the blocked status.            *)

C10_BlockedOnlyByInstall ==
    SetBlocked => event \in {"install", "upgrade_charm"}

(* C10, amended: the unit status is blocked only as the outcome of a       *)
(* failed install/upgrade handling or of a start handling whose            *)
(* update_checkout failed: no handling of configuration-changed, build     *)
(* action, upload action or stop sets the blocked status.                  *)

C10_BlockedOnlyByInstallOrStart ==
    /\ SetBlocked =>
          \/ event \in {"install", "upgrade_charm"} /\ TheCall("install").exc # NoExc
          \/ event = "start" /\ TheCall("update_checkout").exc # NoExc
    /\ status.name = "blocked" =>
          event \notin {"config_changed", "build_langpacks_action",
                        "upload_langpacks_action", "stop"}

C10_Witness ==
    /\ event = "start"
    /\ TheCall("update_checkout").exc = "CalledProcessError"
    /\ status = BlockedStatus(StartFailed)

(* C11: a failed signing-key import (configuration-changed) and a failed   *)
(* upload (upload action) each end in active status with that operation's  *)
(* own failure message, never in blocked or maintenance status.            *)

C11_FailedImportOrUploadInforms ==
    /\ (event = "config_changed" /\ Called("import_gpg_key")
           /\ TheCall("import_gpg_key").exc # NoExc)
          => EndedIn(ActiveStatus(ImportKeyFailed))
    /\ (event = "upload_langpacks_action" /\ Called("upload_langpacks")
           /\ TheCall("upload_langpacks").exc # NoExc)
          => EndedIn(ActiveStatus(UploadFailed))

(* C12: on stop disable_crontab is called; whether it succeeds or fails    *)
(* with a command error, no error leaves the handler and the status is     *)
(* left at maintenance 'Removing crontab', never blocked.                  *)

C12_StopNeverBlocks ==
    event = "stop" =>
        /\ Called("disable_crontab")
        /\ TheCall("disable_crontab").exc \in {NoExc, "CalledProcessError"}
              => EndedIn(MaintenanceStatus("Removing crontab"))
        /\ ~SetBlocked

C12_Witness ==
    /\ event = "stop"
    /\ TheCall("disable_crontab").exc = "CalledProcessError"
    /\ host.crontab
    /\ EndedIn(MaintenanceStatus("Removing crontab"))

(* C13: check_gpg_key returns true exactly when the secret-key listing     *)
(* command succeeds and its output has at least one line beginning with    *)
(* 'sec:'; when the listing fails in any way it returns false, and it      *)
(* never raises.                                                           *)

\* the listing step of the last upload action
IsListing(c) == c.op = "run" /\ c.args = ListingCommand
Listing == calls[CHOOSE i \in DOMAIN calls : IsListing(calls[i])]

HasSecLine(stdout) ==
    \E i \in DOMAIN stdout :
        /\ Len(stdout[i]) >= 4
        /\ stdout[i][1] = "s" /\ stdout[i][2] = "e"
        /\ stdout[i][3] = "c" /\ stdout[i][4] = ":"

C13_KeyCheckIffSecLine ==
    event = "upload_langpacks_action" =>
        /\ Called("check_gpg_key")
        /\ \E i \in DOMAIN calls : IsListing(calls[i])
        /\ TheCall("check_gpg_key").exc = NoExc
        /\ KeyCheck \in {"True", "False"}
        /\ KeyCheck = "True" <=> (Listing.exc = NoExc /\ HasSecLine(Listing.ret))
        /\ ~Called("upload_langpacks") => escaped = NoExc

\* a listing whose `sec:` record is not on its first line
C13_Witness ==
    /\ event = "upload_langpacks_action"
    /\ KeyCheck = "True"
    /\ Listing.exc = NoExc
    /\ Len(Listing.ret) = 2
    /\ ~HasSecLine(<<Listing.ret[1]>>)

\* a listing that fails
C13_WitnessFailure ==
    /\ event = "upload_langpacks_action"
    /\ KeyCheck = "False"
    /\ Listing.exc = "FileNotFoundError"
    /\ escaped = NoExc

(* C14: the status a handler leaves depends on its trigger and on the      *)
(* outcomes of its own steps only, not on the status before it or on what  *)
(* happened earlier: whatever came before (a failed build or upload, a     *)
(* blocked status, a failure message), a build or upload action calls the  *)
(* Service and ends in active status with an empty message when its steps  *)
(* succeed.                                                                *)

C14_OutcomeIndependentOfPast ==
    /\ event \in Observed =>
          /\ statusLog # <<>>
          /\ status = statusLog[Len(statusLog)]
    /\ event = "build_langpacks_action" =>
          /\ Called("build_langpacks")
          /\ TheCall("build_langpacks").exc = NoExc => EndedIn(ActiveStatus(""))
    /\ event = "upload_langpacks_action" =>
          /\ Called("check_gpg_key")
          /\ KeyCheck = "True" => Called("upload_langpacks")
          /\ (Called("upload_langpacks") /\ TheCall("upload_langpacks").exc = NoExc)
                => EndedIn(ActiveStatus(""))

\* a build that runs to the end of the import on a blocked unit
C14_Witness ==
    /\ event = "build_langpacks_action"
    /\ previous = "blocked"
    /\ Called("import")
    /\ TheCall("build_langpacks").exc = NoExc
    /\ EndedIn(ActiveStatus(""))

\* an upload that succeeds on a unit showing a failure message
C14_WitnessAfterFailure ==
    /\ event = "upload_langpacks_action"
    /\ previous = "informed"
    /\ Called("upload_langpacks")
    /\ TheCall("upload_langpacks").exc = NoExc
    /\ EndedIn(ActiveStatus(""))

(* C15: the build action writes 'Building langpacks, it may take a while'  *)
(* to the action log before building, and 'Langpacks build failed' as well *)
(* when the build fails; the upload action writes 'Uploading langpacks, it *)
(* may take a while' when a signing key is present and 'Can't upload       *)
(* langpacks without a signing key' when none is.                          *)

Logged(m) == \E i \in DOMAIN actionLog : actionLog[i] = m

C15_ActionLogMessages ==
    /\ event = "build_langpacks_action" =>
          /\ actionLog # <<>>
          /\ actionLog[1] = "Building langpacks, it may take a while"
          /\ TheCall("build_langpacks").exc # NoExc
                => Logged("Langpacks build failed")
    /\ event = "upload_langpacks_action" =>
          /\ KeyCheck = "True" => Logged("Uploading langpacks, it may take a while")
          /\ KeyCheck = "False"
                => Logged("Can't upload langpacks without a signing key")

(* C16: build_langpacks called with 'devel' resolves it to the current     *)
(* development series and builds for that series (it is not a no-op)       *)
(* whenever the development series is among the active series.             *)

\* the series under development in the listings of SeriesListings
DevelSeries == "questing"

DevelBuild ==
    /\ event = "build_langpacks_action"
    /\ TheCall("build_langpacks").args.release = "devel"
    /\ TheCall("active_series").exc = NoExc
    /\ DevelSeries \in TheCall("active_series").ret

C16_DevelBuildsDevelopmentSeries ==
    DevelBuild =>
        /\ Called("os.makedirs")
        /\ TheCall("os.makedirs").args = Join(BUILDDIR, DevelSeries)

(* C17: after the download for release r has succeeded the tarball is a    *)
(* file of r's own build directory, the directory under the build root     *)
(* that the step before created, and that path is the one handed to the    *)
(* import script.                                                          *)

Dirname(path) == SubSeq(path, 1, Len(path) - 1)

Downloaded ==
    /\ event = "build_langpacks_action"
    /\ Called("open(wb)")
    /\ TheCall("open(wb)").exc = NoExc

C17_TarballInReleaseDirectory ==
    Downloaded =>
        /\ TheCall("os.makedirs").args = Join(BUILDDIR, ReleaseBuilt)
        /\ Dirname(TheCall("open(wb)").args) = TheCall("os.makedirs").args
        /\ Called("import") =>
              TheCall("import").args.tarball = TheCall("open(wb)").args

(* C18: in every Service operation other than check_gpg_key, a step that   *)
(* fails makes the operation fail (the error reaches the caller) and no    *)
(* later step of the operation runs; check_gpg_key is the only Service     *)
(* operation that returns normally after one of its steps failed.          *)

ServiceOperations ==
    {"setup_crontab", "install", "update_checkout", "build_langpacks",
     "upload_langpacks", "disable_crontab", "import_gpg_key", "check_gpg_key"}

\* the logged steps that belong to the Service operation logged at j
StepsOf(j) ==
    { i \in DOMAIN calls :
        /\ i > j
        /\ \A k \in (j + 1)..i : calls[k].op \notin ServiceOperations }

C18_FailedStepFailsOperation ==
    \A j \in DOMAIN calls :
        (calls[j].op \in ServiceOperations \ {"check_gpg_key"}) =>
            \A i \in StepsOf(j) :
                calls[i].exc # NoExc =>
                    /\ calls[j].exc # NoExc
                    /\ \A k \in StepsOf(j) : k <= i

(* C19: in build_langpacks on an active release the steps come in the      *)
(* order cache clear (base builds only), creation of the release           *)
(* directory, download, import script; the download begins only if the     *)
(* directory was created, and the import script is invoked only if the     *)
(* download of the same call completed.                                    *)

IndexOf(op) == CHOOSE i \in DOMAIN calls : calls[i].op = op

Before(a, b) == IndexOf(a) < IndexOf(b)

Succeeded(op) == Called(op) /\ TheCall(op).exc = NoExc

DownloadSteps == <<"requests.get", "raise_for_status", "open(wb)">>

C19_BuildStepOrder ==
    event = "build_langpacks_action" =>
        /\ \A i \in DOMAIN calls :
              calls[i].op \in BuildSteps \cup {"shutil.rmtree"}
                  => ReleaseBuilt \in TheCall("active_series").ret
        /\ Called("shutil.rmtree") =>
              /\ TheCall("build_langpacks").args.base
              /\ Called("os.makedirs") /\ Before("shutil.rmtree", "os.makedirs")
        /\ Called("requests.get") =>
              Succeeded("os.makedirs") /\ Before("os.makedirs", "requests.get")
        /\ Called("raise_for_status") =>
              Succeeded("requests.get") /\ Before("requests.get", "raise_for_status")
        /\ Called("open(wb)") =>
              Succeeded("raise_for_status") /\ Before("raise_for_status", "open(wb)")
        /\ Called("import") =>
              /\ \A n \in DOMAIN DownloadSteps :
                    Succeeded(DownloadSteps[n]) /\ Before(DownloadSteps[n], "import")
              /\ IndexOf("import") = Len(calls)

\* a base build that clears the cache and runs to the end of the import
C19_Witness ==
    /\ event = "build_langpacks_action"
    /\ Called("shutil.rmtree")
    /\ Succeeded("import")
    /\ Len(calls) = 9

(* C20: install runs its steps in the order package index refresh, each    *)
(* package of the fixed list one at a time in list order, clone, creation  *)
(* of the build directory and of the log directory; at the first failing   *)
(* step no later step runs, and every package installed before the failure *)
(* stays installed (nothing is rolled back).                               *)

Expected(op, args) == [op |-> op, args |-> args]

InstallSteps ==
    << Expected("apt.update", <<>>),
       Expected("apt.add_package", <<"build-essential">>),
       Expected("apt.add_package", <<"libgettextpo-dev">>),
       Expected("apt.add_package", <<"debhelper">>),
       Expected("apt.add_package", <<"fakeroot">>),
       Expected("apt.add_package", <<"python3-launchpadlib">>),
       Expected("apt.add_package", <<"python3-apt">>),
       Expected("apt.add_package", <<"dput">>),
       Expected("apt.add_package", <<"git">>),
       Expected("apt.add_package", <<"devscripts">>),
       Expected("apt.add_package", <<"lintian">>),
       Expected("Repo.clone_from", <<"https://git.launchpad.net/langpack-o-matic">>),
       Expected("os.mkdir", <<"app", "build">>),
       Expected("os.mkdir", <<"app", "log">>) >>

\* the steps install took: what the log holds between the call of install
\* and the call of setup_crontab, if any
InstallRan == Cardinality(StepsOf(1))

C20_InstallInOrderNoRollback ==
    event = "install" =>
        /\ calls[1].op = "install"
        /\ InstallRan \in 1..Len(InstallSteps)
        /\ \A n \in 1..InstallRan :
              /\ calls[n + 1].op = InstallSteps[n].op
              /\ calls[n + 1].args = InstallSteps[n].args
              /\ calls[n + 1].exc # NoExc =>
                    /\ n = InstallRan
                    /\ Len(calls) = n + 1
                    /\ calls[1].exc = calls[n + 1].exc
              /\ (calls[n + 1].op = "apt.add_package" /\ calls[n + 1].exc = NoExc)
                    => calls[n + 1].args[1] \in host.installed
        /\ (InstallRan < Len(InstallSteps)) => calls[InstallRan + 1].exc # NoExc

\* the fifth package fails: the four before it are installed
C20_Witness ==
    /\ event = "install"
    /\ Len(calls) = 6
    /\ calls[6].exc = "PackageError"
    /\ host.installed
          = {"build-essential", "libgettextpo-dev", "debhelper", "fakeroot"}

(* C21: install can be run again: after a successful install, an install   *)
(* (or upgrade) event handled while the package manager, the network and   *)
(* the file system are healthy succeeds again and ends in active status;   *)
(* the checkout and the build and log directories that already exist do    *)
(* not make the second run fail.                                           *)

\* what a successful install has left on the machine
Installed ==
    /\ \A n \in DOMAIN PACKAGES : PACKAGES[n] \in host.installed
    /\ host.repo /\ host.builddir /\ host.logdir

\* no step of the last dispatch failed for a reason outside the machine's
\* own state: what failed, if anything, is the clone or a directory creation
\* meeting what is already there
Healthy ==
    \A i \in DOMAIN calls :
        calls[i].exc # NoExc =>
            \/ calls[i].op = "install"
            \/ calls[i].op = "Repo.clone_from" /\ host.repo
            \/ calls[i].op = "os.mkdir" /\ calls[i].exc = "FileExistsError"

C21_InstallRerunnable ==
    [][(Installed /\ event' = "install" /\ Healthy')
          => /\ TheCall("install")'.exc = NoExc
             /\ EndedIn(ActiveStatus(""))']_vars

(* C22: a base build removes from the release's build directory only the   *)
(* cache subdirectories sources-base and sources-update: every other entry *)
(* the directory had is unchanged by the cache-clear step, and the         *)
(* directories of other releases are never touched.                        *)

\* the entries, other than the cache, that a release directory holds
KeptOf(d) == d.entries \ CacheEntries

C22_OnlyCacheRemoved ==
    [][event' = "build_langpacks_action" =>
          /\ \A s \in Series \ {ReleaseBuilt'} : host'.reldirs[s] = host.reldirs[s]
          /\ Called("shutil.rmtree")' =>
                /\ TheCall("shutil.rmtree")'.dir = host.reldirs[ReleaseBuilt']
                /\ KeptOf(TheCall("os.makedirs")'.dir)
                      = KeptOf(host.reldirs[ReleaseBuilt'])]_vars

(* C23: the status is set to active with an empty message only at the end  *)
(* of a handler in which every Service call the handler made returned      *)
(* normally; in particular, when setup_crontab fails after a successful    *)
(* install the error leaves the handler and the status is not set to       *)
(* active: it stays at maintenance 'Setting up crontab'.                   *)

\* the Service calls the last handler made
ServiceCalls == { i \in DOMAIN calls : calls[i].op \in ServiceOperations }

CrontabFailed ==
    /\ event = "install"
    /\ Called("setup_crontab")
    /\ TheCall("setup_crontab").exc # NoExc

C23_ActiveOnlyAfterSuccess ==
    /\ \A n \in DOMAIN statusLog :
          statusLog[n] = ActiveStatus("") =>
              /\ n = Len(statusLog)
              /\ escaped = NoExc
              /\ ServiceCalls # {}
              /\ \A i \in ServiceCalls : calls[i].exc = NoExc
    /\ CrontabFailed =>
          /\ TheCall("install").exc = NoExc
          /\ escaped = TheCall("setup_crontab").exc
          /\ status = MaintenanceStatus("Setting up crontab")

C23_Witness ==
    /\ CrontabFailed
    /\ Installed
    /\ escaped = "CalledProcessError"
    /\ status = MaintenanceStatus("Setting up crontab")

(* C24: on configuration-changed import_gpg_key is invoked with actual key *)
(* material only: when the resolved secret has no entry named 'key', the   *)
(* key importer is not invoked with an absent (null) key.                  *)

C24_ImportOnlyKeyMaterial ==
    (event = "config_changed" /\ Called("import_gpg_key")) =>
        /\ TheCall("import_gpg_key").args[1] # None
        /\ TheCall("import_gpg_key").args[1] \in KeyMaterial

====
